---- MODULE Spec2Model ----
(***************************************************************************)
(* A state-machine model of the HID library in src/src/rhid_win.c:         *)
(* enumeration and descriptor building (rhid_get_devices), the device      *)
(* lifecycle (rhid_open, rhid_close), selection (rhid_select_count,        *)
(* rhid_select_devices), the state getters, the report poller              *)
(* (rhid_read_report) and the report decoder (rhid_report), together with  *)
(* the part of the operating system the code talks to: overlapped reads    *)
(* that the driver completes on its own, and the process-wide OVERLAPPED   *)
(* structure _rhid_win_gcache.report_overlapped.                           *)
(***************************************************************************)
EXTENDS Integers, Sequences, FiniteSets, TLC

VARIABLES platform, devices, gcache, io, enumerated, last

vars == <<platform, devices, gcache, io, enumerated, last>>

----------------------------------------------------------------------------
(* Sizes.  RHID_MAX_BUTTON_CAPS, RHID_MAX_VALUE_CAPS and MAX_BUTTON_COUNT   *)
(* are set in rhid.h, which is not among the sources; the model gives them *)
(* small values.                                                           *)

RHID_MAX_BUTTON_CAPS == 4

RHID_MAX_VALUE_CAPS == 2

MAX_BUTTON_COUNT == 3

\* the `count` argument of rhid_get_devices: the length of the caller's array
DeviceCount == 2

\* the most reads the driver holds in flight at once, over all devices
MaxInflight == 2

Devs == 0 .. (DeviceCount - 1)

\* the report ids the program asks for
ReportIds == {1}

\* what the first byte of a fresh report buffer can hold
GarbageBytes == {0, 1}

\* the numbers a value query can decode
ValueAnswers == {5, 127}

\* HIDP status of a driver call
HIDP_STATUS_SUCCESS == "HIDP_STATUS_SUCCESS"

HIDP_STATUS_FAILED == "HIDP_STATUS_USAGE_NOT_FOUND"

----------------------------------------------------------------------------
(* Memory.  A pointer field is a record: ptr says whether it is non-NULL,   *)
(* mem is what it points to.                                               *)

NullPtr == [ptr |-> FALSE, mem |-> <<>>]

Alloc(m) == [ptr |-> TRUE, mem |-> m]

ZeroButtonDescriptor == [report_id |-> 0, page |-> 0, usage |-> 0, index |-> 0]

ZeroValueDescriptor ==
    [report_id |-> 0, page |-> 0, usage |-> 0,
     logical_min |-> 0, logical_max |-> 0, index |-> 0]

\* memset(&devices[i], 0, sizeof(rhid_device_t))
ZeroDevice ==
    [path |-> FALSE, handle |-> FALSE, is_open |-> 0, preparsed |-> FALSE,
     report |-> NullPtr, buttons |-> NullPtr, values |-> NullPtr,
     native |-> NullPtr,
     usage_page |-> 0, usage |-> 0,
     cap_button_count |-> 0, cap_value_count |-> 0,
     button_count |-> 0, value_count |-> 0, report_size |-> 0,
     button_descriptors |-> [p \in 0 .. (RHID_MAX_BUTTON_CAPS - 1) |-> ZeroButtonDescriptor],
     value_descriptors |-> [p \in 0 .. (RHID_MAX_VALUE_CAPS - 1) |-> ZeroValueDescriptor],
     overrun |-> FALSE]

\* static struct _rhid_win_gcache = {0}
ZeroOverlapped == [pending |-> FALSE, bytes |-> 0]

ZeroCache ==
    [button_caps_count |-> 0, value_caps_count |-> 0,
     report_overlapped |-> ZeroOverlapped]

\* the reads the driver holds for one device.  latest: the read most recently
\* started on the device's current buffer (-2 none, -1 in flight, n >= 0
\* completed with n bytes); older: earlier reads into the current buffer
\* still in flight; leaked: reads in flight into a buffer a second rhid_open
\* left behind; freed: reads in flight into a buffer rhid_close has freed.
NoIo == [latest |-> -2, older |-> 0, leaked |-> 0, freed |-> 0]

InFlightOf(r) ==
    (IF r.latest = -1 THEN 1 ELSE 0) + r.older + r.leaked + r.freed

RECURSIVE SumInFlight(_, _)
SumInFlight(f, S) ==
    IF S = {} THEN 0
    ELSE LET d == CHOOSE x \in S : TRUE
         IN InFlightOf(f[d]) + SumInFlight(f, S \ {d})

TotalInFlight == SumInFlight(io, Devs)

----------------------------------------------------------------------------
(* The hardware: what the operating system answers during enumeration.     *)
(* An interface is the driver's data for one attached device; in a button  *)
(* capability that is not a range, UsageMin holds NotRange.Usage (the two  *)
(* share storage in HIDP_BUTTON_CAPS).                                     *)

ButtonCap(rid, page, isRange, umin, umax) ==
    [ReportID |-> rid, UsagePage |-> page, IsRange |-> isRange,
     UsageMin |-> umin, UsageMax |-> umax]

ValueCap(rid, page, isRange, umin, umax, lmin, lmax) ==
    [ReportID |-> rid, UsagePage |-> page, IsRange |-> isRange,
     UsageMin |-> umin, UsageMax |-> umax,
     LogicalMin |-> lmin, LogicalMax |-> lmax]

Interface(page, usage, size, bcaps, vcaps, maxlist) ==
    [present |-> TRUE, open_ok |-> TRUE, preparsed_ok |-> TRUE,
     caps_status |-> HIDP_STATUS_SUCCESS,
     button_caps_status |-> HIDP_STATUS_SUCCESS,
     value_caps_status |-> HIDP_STATUS_SUCCESS,
     UsagePage |-> page, Usage |-> usage, InputReportByteLength |-> size,
     NumberInputButtonCaps |-> Len(bcaps), NumberInputValueCaps |-> Len(vcaps),
     button_caps |-> bcaps, value_caps |-> vcaps,
     MaxUsageListLength |-> maxlist]

\* no interface at this index: SetupDiEnumDeviceInterfaces reports ERROR_NO_MORE_ITEMS
Absent == [Interface(0, 0, 0, <<>>, <<>>, 0) EXCEPT !.present = FALSE]

\* a game pad: buttons 1..2 as a usage range and button 5 alone; the driver
\* reports at most 3 usages active at once
Pad ==
    Interface(1, 5, 3,
              <<ButtonCap(1, 9, TRUE, 1, 2), ButtonCap(1, 9, FALSE, 5, 5)>>,
              <<>>,
              3)

\* a vendor-defined interface (usage page 0xFF00) that declares no input
\* buttons and no input values: its reports are polled, nothing is decoded
Vendor ==
    Interface(65280, 1, 2, <<>>, <<>>, 0)

\* one button and two axes
Stick ==
    Interface(1, 4, 2,
              <<ButtonCap(0, 9, FALSE, 1, 1)>>,
              <<ValueCap(0, 1, FALSE, 48, 48, 0, 255),
                ValueCap(0, 1, FALSE, 49, 49, 0, 255)>>,
              1)

\* a key pad: keys 1..3 as a usage range in an array field of two entries,
\* so that the driver reports at most 2 usages active at once
Keys ==
    Interface(1, 7, 2, <<ButtonCap(0, 9, TRUE, 1, 3)>>, <<>>, 2)

\* the device lists the model is run on, by name
Scenarios == {"pad", "keys", "stick", "pair"}

InterfacesOf(name) ==
    CASE name = "pad" -> <<Pad>>
      [] name = "keys" -> <<Keys>>
      [] name = "stick" -> <<Stick>>
      [] OTHER -> <<Vendor, Vendor>>

\* the interface SetupDiEnumDeviceInterfaces finds at index i of the list of
\* attached interfaces
InterfaceAt(list, i) ==
    IF i + 1 <= Len(list) THEN list[i + 1] ELSE Absent

----------------------------------------------------------------------------
(* Descriptor building, rhid_get_devices lines 337-506.                    *)

\* one store into devices[i].button_descriptors[btn_desc_idx]; a store at or
\* beyond RHID_MAX_BUTTON_CAPS leaves the array and is recorded as an overrun
PutButton(st, field, val) ==
    IF st.idx < RHID_MAX_BUTTON_CAPS
    THEN [st EXCEPT !.desc[st.idx][field] = val]
    ELSE [st EXCEPT !.overrun = TRUE]

NextIdx(st) == [st EXCEPT !.idx = st.idx + 1]

\* for(uint16_t u = UsageMin; u <= UsageMax; u++) { page, usage, index; btn_desc_idx++ }
\* u is 16 bits wide: after 0xFFFF it is 0 again, so that with UsageMax =
\* 0xFFFF the condition never fails.  The loop is followed until a store has
\* left the array; what the program does from there on is not defined.
RECURSIVE ExpandRange(_, _, _)
ExpandRange(st, cap, u) ==
    IF u <= cap.UsageMax /\ ~st.overrun
    THEN ExpandRange(
             NextIdx(PutButton(PutButton(PutButton(st, "page", cap.UsagePage),
                                         "usage", u),
                               "index", st.idx)),
             cap, (u + 1) % 65536)
    ELSE st

\* the body of the loop over k, lines 380-411
ButtonCapStep(st, cap) ==
    LET s1 == PutButton(st, "report_id", cap.ReportID)
        s2 == IF cap.IsRange
              THEN ExpandRange(s1, cap, cap.UsageMin)
              ELSE PutButton(PutButton(PutButton(s1, "page", cap.UsagePage),
                                       "usage", cap.UsageMin),
                             "index", s1.idx)
    IN NextIdx(s2)

RECURSIVE ButtonCapLoop(_, _, _)
ButtonCapLoop(st, caps, k) ==
    IF k > Len(caps) THEN st
    ELSE ButtonCapLoop(ButtonCapStep(st, caps[k]), caps, k + 1)

BuildButtonDescriptors(caps) ==
    ButtonCapLoop([desc |-> ZeroDevice.button_descriptors, idx |-> 0,
                   overrun |-> FALSE],
                  caps, 1)

\* the loop over k, lines 460-482
BuildValueDescriptors(caps) ==
    [p \in 0 .. (RHID_MAX_VALUE_CAPS - 1) |->
        IF p < Len(caps)
        THEN [report_id |-> caps[p + 1].ReportID,
              page |-> caps[p + 1].UsagePage,
              usage |-> IF caps[p + 1].IsRange THEN caps[p + 1].UsageMax
                        ELSE caps[p + 1].UsageMin,
              logical_min |-> caps[p + 1].LogicalMin,
              logical_max |-> caps[p + 1].LogicalMax,
              index |-> p]
        ELSE ZeroValueDescriptor]

Max(a, b) == IF a > b THEN a ELSE b

\* lines 337-415: [dev, gc, abandoned]
ButtonCapsPhase(dev, e, gc) ==
    IF e.NumberInputButtonCaps = 0
    THEN [dev |-> dev, gc |-> gc, abandoned |-> FALSE]
    ELSE LET gc1 == [gc EXCEPT !.button_caps_count =
                                   Max(gc.button_caps_count, e.NumberInputButtonCaps)]
             d1 == [dev EXCEPT !.cap_button_count = e.NumberInputButtonCaps]
         IN IF e.button_caps_status # HIDP_STATUS_SUCCESS
            THEN [dev |-> d1, gc |-> gc1, abandoned |-> FALSE]
            ELSE IF e.NumberInputButtonCaps > RHID_MAX_BUTTON_CAPS
            THEN [dev |-> d1, gc |-> gc1, abandoned |-> TRUE]
            ELSE LET b == BuildButtonDescriptors(e.button_caps)
                 IN [dev |-> [d1 EXCEPT !.button_descriptors = b.desc,
                                        !.overrun = b.overrun],
                     gc |-> gc1, abandoned |-> FALSE]

\* lines 417-485
ValueCapsPhase(dev, e, gc) ==
    IF e.NumberInputValueCaps = 0
    THEN [dev |-> dev, gc |-> gc, abandoned |-> FALSE]
    ELSE LET gc1 == [gc EXCEPT !.value_caps_count =
                                   Max(gc.value_caps_count, e.NumberInputValueCaps)]
             d1 == [dev EXCEPT !.cap_value_count = e.NumberInputValueCaps]
         IN IF e.value_caps_status # HIDP_STATUS_SUCCESS
            THEN [dev |-> d1, gc |-> gc1, abandoned |-> FALSE]
            ELSE IF e.NumberInputValueCaps > RHID_MAX_VALUE_CAPS
            THEN [dev |-> d1, gc |-> gc1, abandoned |-> TRUE]
            ELSE [dev |-> [d1 EXCEPT !.value_descriptors =
                                         BuildValueDescriptors(e.value_caps)],
                  gc |-> gc1, abandoned |-> FALSE]

\* one pass of the loop over i, lines 196-506, for an interface that exists.
\* Every path leaves handle NULL: the handle is used for the queries only.
EnumerateDevice(e, gc) ==
    LET z == [ZeroDevice EXCEPT !.path = TRUE]
    IN IF ~e.open_ok \/ ~e.preparsed_ok \/ e.caps_status # HIDP_STATUS_SUCCESS
       THEN [dev |-> z, gc |-> gc]
       ELSE LET b == ButtonCapsPhase(z, e, gc)
            IN IF b.abandoned THEN [dev |-> b.dev, gc |-> b.gc]
               ELSE LET v == ValueCapsPhase(b.dev, e, b.gc)
                    IN IF v.abandoned THEN [dev |-> v.dev, gc |-> v.gc]
                       ELSE [dev |-> [v.dev EXCEPT
                                         !.usage_page = e.UsagePage,
                                         !.usage = e.Usage,
                                         !.button_count = e.MaxUsageListLength,
                                         !.value_count = e.NumberInputValueCaps,
                                         !.report_size = e.InputReportByteLength],
                             gc |-> v.gc]

\* the loop over i, as a bug would have it: the first device that is
\* abandoned ends the enumeration
RECURSIVE GetDevicesLoopStopping(_, _, _, _)
GetDevicesLoopStopping(devs, gc, scen, i) ==
    IF i >= DeviceCount THEN [devs |-> devs, gc |-> gc]
    ELSE LET e == InterfaceAt(scen, i)
         IN IF ~e.present
            THEN [devs |-> [devs EXCEPT ![i] = ZeroDevice], gc |-> gc]
            ELSE LET r == EnumerateDevice(e, gc)
                 IN IF r.dev.usage_page = 0
                    THEN [devs |-> [devs EXCEPT ![i] = r.dev], gc |-> r.gc]
                    ELSE GetDevicesLoopStopping([devs EXCEPT ![i] = r.dev],
                                                r.gc, scen, i + 1)

\* for(int i = 0; i < count; i++): memset, then stop at the first index
\* without an interface
RECURSIVE GetDevicesLoop(_, _, _, _)
GetDevicesLoop(devs, gc, scen, i) ==
    IF i >= DeviceCount THEN [devs |-> devs, gc |-> gc]
    ELSE LET e == InterfaceAt(scen, i)
         IN IF ~e.present
            THEN [devs |-> [devs EXCEPT ![i] = ZeroDevice], gc |-> gc]
            ELSE LET r == EnumerateDevice(e, gc)
                 IN GetDevicesLoop([devs EXCEPT ![i] = r.dev], r.gc, scen, i + 1)

----------------------------------------------------------------------------
(* Overlapped I/O as the operating system provides it.                     *)

ReadOutcomes == {"done", "pending", "error"}

\* GetOverlappedResult(handle, &report_overlapped, &bytes_read, FALSE): the
\* answer is read from the OVERLAPPED structure alone; while it is pending
\* bytes_read keeps its initial 0
GetOverlappedResult(ov) == IF ov.pending THEN 0 ELSE ov.bytes

\* one more read into the device's current buffer
StartRead(r) ==
    [r EXCEPT !.latest = -1,
              !.older = r.older + (IF r.latest = -1 THEN 1 ELSE 0)]

\* ReadFile(handle, report, report_size, &bytes_read, &report_overlapped).
\* The structure is marked pending first; the read then completes at once
\* ("done"), is queued (ERROR_IO_PENDING) or is refused ("error").
ReadFile(r, size, outcome) ==
    CASE outcome = "done" ->
           [ov |-> [pending |-> FALSE, bytes |-> size],
            io |-> [StartRead(r) EXCEPT !.latest = size],
            refused |-> FALSE]
      [] outcome = "pending" ->
           [ov |-> [pending |-> TRUE, bytes |-> 0],
            io |-> StartRead(r),
            refused |-> FALSE]
      [] OTHER ->
           [ov |-> [pending |-> TRUE, bytes |-> 0],
            io |-> r,
            refused |-> TRUE]

----------------------------------------------------------------------------
(* The report poller, rhid_read_report, lines 550-585.                     *)
(* Result: the device, the shared OVERLAPPED, the driver's reads, the      *)
(* return value, the bytes the completion check saw and the number of      *)
(* ReadFile calls made.                                                    *)

\* rhid_read_report, as a bug would have it: a refused ReadFile is taken for
\* a started read
rhid_read_report_refusal_pending(dev, ov, r, report_id, outcome) ==
    LET reading == dev.native.mem.is_reading
        bytes_read == IF reading = 1 THEN GetOverlappedResult(ov) ELSE 0
    IN IF reading = 1 /\ bytes_read < dev.report_size
       THEN [dev |-> dev, ov |-> ov, io |-> r, ret |-> 0,
             obs |-> bytes_read, issued |-> 0]
       ELSE LET d1 == [dev EXCEPT !.native.mem.is_reading = 1,
                                  !.report.mem = <<report_id>>]
                rf == ReadFile(r, dev.report_size, outcome)
            IN [dev |-> d1, ov |-> rf.ov, io |-> rf.io,
                ret |-> IF rf.refused THEN 0 ELSE 1,
                obs |-> bytes_read, issued |-> 1]

rhid_read_report(dev, ov, r, report_id, outcome) ==
    LET reading == dev.native.mem.is_reading
        bytes_read == IF reading = 1 THEN GetOverlappedResult(ov) ELSE 0
    IN IF reading = 1 /\ bytes_read < dev.report_size
       THEN [dev |-> dev, ov |-> ov, io |-> r, ret |-> 0,
             obs |-> bytes_read, issued |-> 0]
       ELSE LET d1 == [dev EXCEPT !.native.mem.is_reading = 0,
                                  !.report.mem = <<report_id>>]
                rf == ReadFile(r, dev.report_size, outcome)
            IN IF rf.refused
               THEN [dev |-> d1, ov |-> rf.ov, io |-> rf.io, ret |-> 0,
                     obs |-> bytes_read, issued |-> 1]
               ELSE IF d1.native.mem.is_reading = 0
               THEN [dev |-> [d1 EXCEPT !.native.mem.is_reading = 1],
                     ov |-> rf.ov, io |-> rf.io, ret |-> 1,
                     obs |-> bytes_read, issued |-> 1]
               ELSE [dev |-> d1, ov |-> rf.ov, io |-> rf.io, ret |-> 0,
                     obs |-> bytes_read, issued |-> 1]

----------------------------------------------------------------------------
(* The report decoder, rhid_report lines 686-769.                          *)

\* an active usage is a pair <<page, usage>>
Matches(dev, i, pair) ==
    /\ dev.button_descriptors[i].page = pair[1]
    /\ dev.button_descriptors[i].usage = pair[2]

\* the inner loop, lines 702-710: the first i < button_count whose descriptor
\* matches, if any
MatchingPositions(dev, pair) ==
    {i \in 0 .. (dev.button_count - 1) : Matches(dev, i, pair)}

\* memset(buttons, 0, button_count), then the loop over the active usages
DecodeButtons(dev, active) ==
    [s \in 0 .. (dev.button_count - 1) |->
        IF \E pair \in active :
              \E i \in MatchingPositions(dev, pair) :
                 /\ \A j \in MatchingPositions(dev, pair) : i <= j
                 /\ dev.button_descriptors[i].index = s
        THEN 1 ELSE 0]

\* lines 693-697, as a bug would have them: the slots are cleared before the
\* status is looked at
UsageParseFailedCleared(dev) ==
    [dev EXCEPT !.buttons.mem = [s \in 0 .. (dev.button_count - 1) |-> 0]]

\* lines 693-697: HidP_GetUsagesEx did not succeed; rhid_report returns -1
\* at once, before the memset and before the value loop
UsageParseFailed(dev) == dev

\* an answer of HidP_GetUsageValue: whether it succeeded and, if so, the value
\* it stored through the pointer to values[i]
UsageValueAnswers ==
    {[ok |-> FALSE, value |-> 0]} \cup {[ok |-> TRUE, value |-> v] : v \in ValueAnswers}

\* the loop of lines 757-767, as a bug would have it: a failed query stores 0
DecodeValuesZeroOnFail(dev, answers) ==
    [i \in 0 .. (dev.value_count - 1) |->
        IF answers[i].ok THEN answers[i].value ELSE 0]

\* the loop of lines 757-767, as a bug would have it: a decoded value is
\* added to what the slot holds
DecodeValuesAccumulated(dev, answers) ==
    [i \in 0 .. (dev.value_count - 1) |->
        IF answers[i].ok THEN dev.values.mem[i] + answers[i].value
        ELSE dev.values.mem[i]]

\* the loop of lines 757-767: HidP_GetUsageValue stores through &values[i]
\* when it succeeds and leaves the word alone when it fails
DecodeValues(dev, answers) ==
    [i \in 0 .. (dev.value_count - 1) |->
        IF answers[i].ok THEN answers[i].value ELSE dev.values.mem[i]]

\* the usages the report descriptor of an interface declares
RECURSIVE DeclaredUsages(_, _)
DeclaredUsages(caps, k) ==
    IF k > Len(caps) THEN {}
    ELSE {<<caps[k].UsagePage, u>> : u \in caps[k].UsageMin .. caps[k].UsageMax}
         \cup DeclaredUsages(caps, k + 1)

Min(a, b) == IF a < b THEN a ELSE b

\* the lists HidP_GetUsagesEx can return with success: declared usages, no
\* more of them than active_count = MAX_BUTTON_COUNT and than the driver's
\* own maximum
ActiveLists(e) ==
    {a \in SUBSET DeclaredUsages(e.button_caps, 1) :
        Cardinality(a) <= Min(MAX_BUTTON_COUNT, e.MaxUsageListLength)}

----------------------------------------------------------------------------
(* What the last call did: its arguments, the driver's answers, the state  *)
(* it started from and what it returned.                                   *)

NoLast ==
    [op |-> "none", dev |-> 0, ret |-> 0, id |-> 0,
     issued |-> 0, outcome |-> "none", avail |-> 0,
     status |-> "none", active |-> {}, answers |-> <<>>,
     func |-> "none", capacity |-> 0, selected |-> <<>>, beyond |-> FALSE,
     copied |-> <<>>]

Called(op, d, ret) == [NoLast EXCEPT !.op = op, !.dev = d, !.ret = ret]

----------------------------------------------------------------------------
(* The state machine.                                                      *)

Init ==
    /\ platform \in {InterfacesOf(name) : name \in Scenarios}
    /\ devices = [d \in Devs |-> ZeroDevice]
    /\ gcache = ZeroCache
    /\ io = [d \in Devs |-> NoIo]
    /\ enumerated = FALSE
    /\ last = NoLast

\* rhid_get_devices(devices, count), called once by the program before it
\* opens anything
GetDevices ==
    /\ ~enumerated
    /\ LET r == GetDevicesLoop(devices, gcache, platform, 0)
       IN /\ devices' = r.devs
          /\ gcache' = r.gc
    /\ enumerated' = TRUE
    /\ last' = Called("get_devices", 0, 0)
    /\ UNCHANGED <<platform, io>>

\* CreateFileA can succeed only on the path of an interface that exists
CanOpen(d) == devices[d].path /\ InterfaceAt(platform, d).present

\* a second rhid_open leaves the reads of the first in flight, into the
\* buffer it no longer points to
LeakReads(r) ==
    [r EXCEPT !.latest = -2, !.older = 0,
              !.leaked = r.leaked + r.older + (IF r.latest = -1 THEN 1 ELSE 0)]

\* rhid_open, lines 587-634.  b0 is the first byte of the fresh report
\* buffer (malloc, then HidD_GetInputReport).
Open(d) ==
    \E result \in IF CanOpen(d) THEN {"no handle", "no preparsed data", "opened"}
                   ELSE {"no handle"} :
       /\ IF result # "opened"
          THEN /\ devices' = [devices EXCEPT ![d].handle = FALSE]
               /\ last' = Called("open", d, -1)
               /\ io' = io
          ELSE \E b0 \in GarbageBytes :
               /\ devices' = [devices EXCEPT
                     ![d].handle = TRUE,
                     ![d].preparsed = TRUE,
                     ![d].report = Alloc(<<b0>>),
                     ![d].buttons = Alloc([s \in 0 .. (devices[d].button_count - 1) |-> 0]),
                     ![d].values = Alloc([s \in 0 .. (devices[d].value_count - 1) |-> 0]),
                     ![d].native = Alloc([is_reading |-> 0]),
                     ![d].is_open = 1]
               /\ last' = Called("open", d, 0)
               /\ io' = [io EXCEPT ![d] = LeakReads(io[d])]
       /\ UNCHANGED <<platform, gcache, enumerated>>

\* free(device->report) with reads still in flight into it
FreeReads(r) ==
    [r EXCEPT !.latest = -2, !.older = 0,
              !.freed = r.freed + r.older + (IF r.latest = -1 THEN 1 ELSE 0)]

\* rhid_close, as a bug would have it: the memory of the device is cleared
\* as a whole, descriptors and counts included
CloseClearingDevice(d) ==
    /\ IF devices[d].is_open = 0
       THEN /\ last' = Called("close", d, -1)
            /\ UNCHANGED <<devices, io>>
       ELSE /\ devices' = [devices EXCEPT ![d] = [ZeroDevice EXCEPT !.path = TRUE]]
            /\ io' = [io EXCEPT ![d] = FreeReads(io[d])]
            /\ last' = Called("close", d, 0)
    /\ UNCHANGED <<platform, gcache, enumerated>>

\* rhid_close, lines 636-674
Close(d) ==
    /\ IF devices[d].is_open = 0
       THEN /\ last' = Called("close", d, -1)
            /\ UNCHANGED <<devices, io>>
       ELSE /\ devices' = [devices EXCEPT
                  ![d].handle = FALSE,
                  ![d].preparsed = FALSE,
                  ![d].report = NullPtr,
                  ![d].buttons = NullPtr,
                  ![d].values = NullPtr,
                  ![d].native = NullPtr,
                  ![d].is_open = 0]
            /\ io' = [io EXCEPT ![d] = FreeReads(io[d])]
            /\ last' = Called("close", d, 0)
    /\ UNCHANGED <<platform, gcache, enumerated>>

\* the outcomes ReadFile can have in the model: a read is queued only while
\* the driver holds fewer than MaxInflight
AllowedOutcomes ==
    IF TotalInFlight < MaxInflight THEN ReadOutcomes ELSE ReadOutcomes \ {"pending"}

\* rhid_report, lines 676-770
Report(d) ==
    /\ UNCHANGED <<platform, enumerated>>
    /\ IF ~devices[d].handle \/ devices[d].is_open = 0
       THEN /\ last' = Called("report", d, -1)
            /\ UNCHANGED <<devices, gcache, io>>
       ELSE \E report_id \in ReportIds, outcome \in AllowedOutcomes :
          LET dev == devices[d]
              rr == rhid_read_report(dev, gcache.report_overlapped, io[d],
                                     report_id, outcome)
              base == [NoLast EXCEPT
                          !.op = "report", !.dev = d, !.id = report_id,
                          !.issued = rr.issued,
                          !.outcome = IF rr.issued = 1 THEN outcome ELSE "none",
                          !.avail = rr.ret]
          IN /\ gcache' = [gcache EXCEPT !.report_overlapped = rr.ov]
             /\ io' = [io EXCEPT ![d] = rr.io]
             /\ IF rr.ret = 0
                THEN /\ devices' = [devices EXCEPT ![d] = rr.dev]
                     /\ last' = base
                ELSE \E status \in {HIDP_STATUS_SUCCESS, HIDP_STATUS_FAILED} :
                   IF status # HIDP_STATUS_SUCCESS
                   THEN /\ devices' = [devices EXCEPT ![d] = UsageParseFailed(rr.dev)]
                        /\ last' = [base EXCEPT !.ret = -1, !.status = status]
                   ELSE \E active \in ActiveLists(InterfaceAt(platform, d)),
                           answers \in [0 .. (dev.value_count - 1) -> UsageValueAnswers] :
                      LET d1 == [rr.dev EXCEPT !.buttons.mem = DecodeButtons(rr.dev, active)]
                          d2 == [d1 EXCEPT !.values.mem = DecodeValues(d1, answers)]
                      IN /\ devices' = [devices EXCEPT ![d] = d2]
                         /\ last' = [base EXCEPT !.status = status,
                                                 !.active = active,
                                                 !.answers = answers]

\* the driver finishes one of the reads it holds: n bytes arrived (0: the
\* read failed or was cancelled) and the status and byte count are stored
\* in the OVERLAPPED structure the read was started with
Complete(d, which) ==
    /\ \E n \in {0, devices[d].report_size} :
          gcache' = [gcache EXCEPT !.report_overlapped = [pending |-> FALSE, bytes |-> n]]
          /\ CASE which = "latest" ->
                    io[d].latest = -1 /\ io' = [io EXCEPT ![d].latest = n]
               [] which = "older" ->
                    io[d].older > 0 /\ io' = [io EXCEPT ![d].older = io[d].older - 1]
               [] which = "leaked" ->
                    io[d].leaked > 0 /\ io' = [io EXCEPT ![d].leaked = io[d].leaked - 1]
               [] OTHER ->
                    io[d].freed > 0 /\ io' = [io EXCEPT ![d].freed = io[d].freed - 1]
    /\ last' = Called("complete", d, 0)
    /\ UNCHANGED <<platform, devices, enumerated>>

Next ==
    \/ GetDevices
    \/ \E d \in Devs : Open(d)
    \/ \E d \in Devs : Close(d)
    \/ \E d \in Devs : Report(d)
    \/ \E d \in Devs, which \in {"latest", "older", "leaked", "freed"} : Complete(d, which)

Spec == Init /\ [][Next]_vars

----------------------------------------------------------------------------
(* The life of one device, with the calls that read its state,             *)
(* rhid_get_buttons_state and rhid_get_values_state, lines 772-789.        *)

\* the sizes of the arrays the program passes to the state getters
StateSizes == {0, MAX_BUTTON_COUNT}

\* if(size < count) return -1; memcpy(out, state, count); return 0.  The copy
\* is of the device's array as it is (nothing, when the device is closed).
GetState(d) ==
    /\ enumerated
    /\ \E getter \in {"get_buttons_state", "get_values_state"}, size \in StateSizes :
          LET count == IF getter = "get_buttons_state"
                       THEN devices[d].button_count ELSE devices[d].value_count
              state == IF getter = "get_buttons_state"
                       THEN devices[d].buttons.mem ELSE devices[d].values.mem
          IN last' = IF size < count
                     THEN Called(getter, d, -1)
                     ELSE [Called(getter, d, 0) EXCEPT !.copied = state]
    /\ UNCHANGED <<platform, devices, gcache, io, enumerated>>

LifeInit ==
    /\ platform \in {<<Pad>>, <<Stick>>, <<Keys>>}
    /\ devices = [d \in Devs |-> ZeroDevice]
    /\ gcache = ZeroCache
    /\ io = [d \in Devs |-> NoIo]
    /\ enumerated = FALSE
    /\ last = NoLast

LifeNext ==
    \/ GetDevices
    \/ \E d \in Devs : Open(d)
    \/ \E d \in Devs : Close(d)
    \/ \E d \in Devs : Report(d)
    \/ \E d \in Devs, which \in {"latest", "older", "leaked", "freed"} : Complete(d, which)
    \/ \E d \in Devs : GetState(d)

SpecLife == LifeInit /\ [][LifeNext]_vars

----------------------------------------------------------------------------
(* Selection, rhid_select_count and rhid_select_devices, lines 514-548.     *)

\* the select functions the program passes, by name
SelectFuncs == {"any", "generic desktop", "joystick", "none"}

\* select_func(usage_page, usage)
SelectFunc(f, page, usage) ==
    CASE f = "any" -> 1
      [] f = "generic desktop" -> IF page = 1 THEN 1 ELSE 0
      [] f = "joystick" -> IF page = 1 /\ usage = 4 THEN 1 ELSE 0
      [] OTHER -> 0

\* the loop of lines 519-523, as a bug would have it: it starts at the second
\* device
RECURSIVE rhid_select_count_from_second(_, _, _, _)
rhid_select_count_from_second(devs, count, f, i) ==
    IF i >= count THEN 0
    ELSE (IF i > 0 /\ SelectFunc(f, devs[i].usage_page, devs[i].usage) = 1
          THEN 1 ELSE 0)
         + rhid_select_count_from_second(devs, count, f, i + 1)

\* rhid_select_count: the loop of lines 519-523 from index i on
RECURSIVE rhid_select_count(_, _, _, _)
rhid_select_count(devs, count, f, i) ==
    IF i >= count THEN 0
    ELSE (IF SelectFunc(f, devs[i].usage_page, devs[i].usage) = 1 THEN 1 ELSE 0)
         + rhid_select_count(devs, count, f, i + 1)

\* selected[select_index] = &devices[i]: the output array has selected_count
\* entries, a store at or beyond that leaves it
PutSelected(st, selected_count, i) ==
    IF st.select_index < selected_count
    THEN [st EXCEPT !.selected[st.select_index + 1] = i]
    ELSE [st EXCEPT !.beyond = TRUE]

\* rhid_select_devices: the loop of lines 535-545 from index i on.  A pointer
\* &devices[i] is the index i.
RECURSIVE rhid_select_devices(_, _, _, _, _, _)
rhid_select_devices(st, devs, count, selected_count, f, i) ==
    IF i >= count THEN [st EXCEPT !.ret = 0]
    ELSE IF SelectFunc(f, devs[i].usage_page, devs[i].usage) # 1
    THEN rhid_select_devices(st, devs, count, selected_count, f, i + 1)
    ELSE IF st.select_index > selected_count
    THEN [st EXCEPT !.ret = -1]
    ELSE rhid_select_devices(
             [PutSelected(st, selected_count, i) EXCEPT
                 !.select_index = st.select_index + 1],
             devs, count, selected_count, f, i + 1)

\* an entry of the caller's output array that nothing has been stored to
Unwritten == -1

\* the program counts the devices a select function accepts
SelectCount ==
    /\ enumerated
    /\ \E f \in SelectFuncs :
          last' = [Called("select_count", 0,
                          rhid_select_count(devices, DeviceCount, f, 0))
                      EXCEPT !.func = f]
    /\ UNCHANGED <<platform, devices, gcache, io, enumerated>>

\* the program selects into an array of selected_count entries
SelectDevices ==
    /\ enumerated
    /\ \E f \in SelectFuncs, selected_count \in 0 .. DeviceCount :
          LET r == rhid_select_devices(
                       [selected |-> [k \in 1 .. selected_count |-> Unwritten],
                        select_index |-> 0, beyond |-> FALSE, ret |-> 0],
                       devices, DeviceCount, selected_count, f, 0)
          IN last' = [Called("select_devices", 0, r.ret) EXCEPT
                         !.func = f, !.capacity = selected_count,
                         !.selected = r.selected, !.beyond = r.beyond]
    /\ UNCHANGED <<platform, devices, gcache, io, enumerated>>

----------------------------------------------------------------------------
(* Enumeration and selection on their own, over the interfaces the          *)
(* hardware can present.                                                   *)

\* the sequences over S of at most n elements
SeqsUpTo(S, n) == UNION {[1 .. k -> S] : k \in 0 .. n}

\* button capabilities: a single button, two usage ranges, and a range that
\* ends at the highest usage a 16-bit usage can be
ButtonCapChoices ==
    {ButtonCap(1, 9, FALSE, 7, 7), ButtonCap(1, 9, TRUE, 1, 2),
     ButtonCap(2, 9, TRUE, 3, 5), ButtonCap(1, 65280, TRUE, 65534, 65535)}

ValueCapChoices ==
    {ValueCap(0, 1, FALSE, 48, 48, 0, 255), ValueCap(0, 1, TRUE, 49, 50, 0, 255)}

\* tables of up to one capability more than the fixed maximum
ButtonTables == SeqsUpTo(ButtonCapChoices, RHID_MAX_BUTTON_CAPS + 1)

ValueTables == SeqsUpTo(ValueCapChoices, RHID_MAX_VALUE_CAPS + 1)

\* the number of usages a capability declares
UsagesOf(cap) == IF cap.IsRange THEN cap.UsageMax - cap.UsageMin + 1 ELSE 1

RECURSIVE ExpandedCount(_, _)
ExpandedCount(caps, k) ==
    IF k > Len(caps) THEN 0 ELSE UsagesOf(caps[k]) + ExpandedCount(caps, k + 1)

\* an interface whose calls all succeed, for every table
TableInterfaces ==
    {Interface(1, 5, 3, b, <<>>, Min(MAX_BUTTON_COUNT, ExpandedCount(b, 1))) :
        b \in ButtonTables}
    \cup {Interface(1, 4, 2, <<ButtonCap(0, 9, FALSE, 1, 1)>>, v, 1) : v \in ValueTables}

\* an interface on which one call of the enumeration fails, or which declares
\* one capability more than the fixed maximum
FaultyInterfaces ==
    {[Stick EXCEPT !.open_ok = FALSE],
     [Stick EXCEPT !.preparsed_ok = FALSE],
     [Stick EXCEPT !.caps_status = HIDP_STATUS_FAILED],
     [Stick EXCEPT !.button_caps_status = HIDP_STATUS_FAILED],
     [Stick EXCEPT !.value_caps_status = HIDP_STATUS_FAILED],
     Interface(1, 5, 3,
               [k \in 1 .. (RHID_MAX_BUTTON_CAPS + 1) |-> ButtonCap(0, 9, FALSE, k, k)],
               <<>>, 3),
     Interface(1, 4, 2, <<>>,
               [k \in 1 .. (RHID_MAX_VALUE_CAPS + 1) |->
                   ValueCap(0, 1, FALSE, 47 + k, 47 + k, 0, 255)],
               0)}

SoundInterfaces == {Pad, Keys, Stick, Vendor}

\* the lists of attached interfaces enumeration is run on
EnumPlatforms ==
    {<<e>> : e \in TableInterfaces \cup FaultyInterfaces}
    \cup {<<a, b>> : a \in FaultyInterfaces \cup SoundInterfaces,
                     b \in FaultyInterfaces \cup SoundInterfaces}

EnumInit ==
    /\ platform \in EnumPlatforms
    /\ devices = [d \in Devs |-> ZeroDevice]
    /\ gcache = ZeroCache
    /\ io = [d \in Devs |-> NoIo]
    /\ enumerated = FALSE
    /\ last = NoLast

EnumNext ==
    \/ GetDevices
    \/ SelectCount
    \/ SelectDevices

SpecEnum == EnumInit /\ [][EnumNext]_vars

----------------------------------------------------------------------------
(* Vocabulary of the claims.                                               *)

\* the device is open as rhid_report requires it (line 678)
Usable(dev) == dev.handle /\ dev.is_open = 1

\* the poller's state: ReadPending is is_reading = 1
ReadPending(dev) == Usable(dev) /\ dev.native.mem.is_reading = 1

Idle(dev) == Usable(dev) /\ dev.native.mem.is_reading = 0

\* the step is a call of rhid_report on a usable device d: the poller ran
Polled(d) == last'.op = "report" /\ last'.dev = d /\ Usable(devices[d])

\* the read the device started last has completed with a whole report
OwnReadComplete(d) == io[d].latest >= devices[d].report_size

\* what a poll of the device would take the completion check to say
ObservesComplete(d) ==
    GetOverlappedResult(gcache.report_overlapped) >= devices[d].report_size

\* the reads in flight into the device's current buffer
LiveReads(d) == (IF io[d].latest = -1 THEN 1 ELSE 0) + io[d].older

\* the positions of button_descriptors the builder wrote a usage to (usage
\* page 0 is what memset left)
Emitted(dev) ==
    {p \in DOMAIN dev.button_descriptors : dev.button_descriptors[p].page # 0}

\* the slots the emitted descriptors name, and those the buttons array has
ButtonSlots(dev) ==
    {dev.button_descriptors[p].index : p \in Emitted(dev)} \cup DOMAIN dev.buttons.mem

\* the state of slot s; a slot the buttons array does not have is not set
ButtonAt(dev, s) == IF s \in DOMAIN dev.buttons.mem THEN dev.buttons.mem[s] ELSE 0

\* some active usage is the usage of an emitted descriptor of slot s
ActiveOnSlot(dev, active, s) ==
    \E pair \in active : \E p \in Emitted(dev) :
        Matches(dev, p, pair) /\ dev.button_descriptors[p].index = s

\* the last call was a decode cycle: rhid_report with a fresh report
Decoding == last.op = "report" /\ last.avail = 1

\* the interface behind devices[d]
Hw(d) == InterfaceAt(platform, d)

\* handle, preparsed data and HidP_GetCaps were all had for the interface
Reached(e) ==
    e.present /\ e.open_ok /\ e.preparsed_ok /\ e.caps_status = HIDP_STATUS_SUCCESS

\* the button descriptors of devices[d] were built from the table of Hw(d)
ButtonsBuilt(d) ==
    /\ enumerated /\ Reached(Hw(d))
    /\ Hw(d).NumberInputButtonCaps > 0
    /\ Hw(d).button_caps_status = HIDP_STATUS_SUCCESS
    /\ Hw(d).NumberInputButtonCaps <= RHID_MAX_BUTTON_CAPS

\* no usage range of the table ends at 0xFFFF: the loops of the build end
BuildEnds(caps) ==
    \A k \in 1 .. Len(caps) : caps[k].IsRange => caps[k].UsageMax < 65535

\* the <<page, usage>> pairs a capability table declares, entry by entry,
\* each range in ascending order
RECURSIVE ExpectedUsages(_, _)
ExpectedUsages(caps, k) ==
    IF k > Len(caps) THEN <<>>
    ELSE [j \in 1 .. UsagesOf(caps[k]) |->
             <<caps[k].UsagePage, caps[k].UsageMin + j - 1>>]
         \o ExpectedUsages(caps, k + 1)

\* the same with the report id of the entry each usage comes from
RECURSIVE ExpectedDescriptors(_, _)
ExpectedDescriptors(caps, k) ==
    IF k > Len(caps) THEN <<>>
    ELSE [j \in 1 .. UsagesOf(caps[k]) |->
             <<caps[k].ReportID, caps[k].UsagePage, caps[k].UsageMin + j - 1>>]
         \o ExpectedDescriptors(caps, k + 1)

\* the device owns what an open device is to own: a handle and the report,
\* button and value buffers
OwnsResources(dev) ==
    dev.handle /\ dev.report.ptr /\ dev.buttons.ptr /\ dev.values.ptr

\* the emitted descriptors of a device from position p on, in position order
RECURSIVE EmittedFrom(_, _)
EmittedFrom(dev, p) ==
    IF p >= RHID_MAX_BUTTON_CAPS THEN <<>>
    ELSE (IF p \in Emitted(dev) THEN <<dev.button_descriptors[p]>> ELSE <<>>)
         \o EmittedFrom(dev, p + 1)

\* the device came out of enumeration with what the driver says of it
Populated(d) ==
    /\ devices[d].usage_page = Hw(d).UsagePage
    /\ devices[d].usage = Hw(d).Usage
    /\ devices[d].button_count = Hw(d).MaxUsageListLength
    /\ devices[d].value_count = Hw(d).NumberInputValueCaps
    /\ devices[d].report_size = Hw(d).InputReportByteLength

\* the device was given up: no handle, nothing of the driver's data
Abandoned(d) ==
    /\ ~devices[d].handle
    /\ devices[d].usage_page = 0 /\ devices[d].usage = 0
    /\ devices[d].button_count = 0 /\ devices[d].value_count = 0
    /\ devices[d].report_size = 0

\* a failure of the enumeration that concerns one interface: no handle, no
\* preparsed data, or more capabilities than the fixed maximum
DeviceFailure(e) ==
    /\ e.present
    /\ \/ ~e.open_ok
       \/ ~e.preparsed_ok
       \/ /\ Reached(e) /\ e.button_caps_status = HIDP_STATUS_SUCCESS
          /\ e.NumberInputButtonCaps > RHID_MAX_BUTTON_CAPS
       \/ /\ Reached(e) /\ e.value_caps_status = HIDP_STATUS_SUCCESS
          /\ e.NumberInputValueCaps > RHID_MAX_VALUE_CAPS

\* an interface on which every call succeeds and which is within the maxima
Sound(e) ==
    /\ Reached(e)
    /\ e.button_caps_status = HIDP_STATUS_SUCCESS
    /\ e.value_caps_status = HIDP_STATUS_SUCCESS
    /\ e.NumberInputButtonCaps <= RHID_MAX_BUTTON_CAPS
    /\ e.NumberInputValueCaps <= RHID_MAX_VALUE_CAPS

\* a capability call the enumeration makes on the interface fails
CapabilityCallFails(e) ==
    /\ e.present /\ e.open_ok /\ e.preparsed_ok
    /\ \/ e.caps_status # HIDP_STATUS_SUCCESS
       \/ /\ e.caps_status = HIDP_STATUS_SUCCESS
          /\ \/ e.NumberInputButtonCaps > 0
                /\ e.button_caps_status # HIDP_STATUS_SUCCESS
             \/ e.NumberInputValueCaps > 0
                /\ e.value_caps_status # HIDP_STATUS_SUCCESS

\* what the enumeration built of a device
BuiltPart(dev) ==
    <<dev.usage_page, dev.usage, dev.button_count, dev.value_count,
      dev.report_size, dev.button_descriptors, dev.value_descriptors>>

\* the devices a select function accepts
Matching(f) ==
    {d \in Devs : SelectFunc(f, devices[d].usage_page, devices[d].usage) = 1}

----------------------------------------------------------------------------
(* The claims.                                                             *)

\* C1: a poll of an open device in Idle whose read can be started writes
\* report_id into byte 0 of the report buffer, issues exactly one read,
\* moves the device to ReadPending and returns "no fresh report yet", so
\* that nothing is decoded in that call.
C1_IdlePollReturnsNoReport ==
    [][\A d \in Devs :
          (Polled(d) /\ Idle(devices[d]) /\ last'.outcome # "error") =>
             /\ devices'[d].report.mem[1] = last'.id
             /\ last'.issued = 1
             /\ ReadPending(devices'[d])
             /\ last'.avail = 0
             /\ devices'[d].buttons = devices[d].buttons
             /\ devices'[d].values = devices[d].values]_vars

\* C2: when a device is in ReadPending and its read has completed with at
\* least report_size bytes, the poll that observes the completion returns
\* "fresh report available" and leaves the device Idle, with no read in
\* flight.
C2_CompletionReturnsToIdle ==
    [][\A d \in Devs :
          (Polled(d) /\ ReadPending(devices[d]) /\ OwnReadComplete(d)
                     /\ ObservesComplete(d)) =>
             /\ last'.avail = 1
             /\ Idle(devices'[d])
             /\ LiveReads(d)' = 0]_vars

\* C3: while the read a device has in flight has not completed, every poll
\* returns "no report", leaves the device in ReadPending, issues no read and
\* leaves the button and value state as it was.
C3_PendingPollDoesNothing ==
    [][\A d \in Devs :
          (Polled(d) /\ ReadPending(devices[d]) /\ ~OwnReadComplete(d)) =>
             /\ last'.avail = 0
             /\ last'.ret = 0
             /\ last'.issued = 0
             /\ ReadPending(devices'[d])
             /\ devices'[d].buttons = devices[d].buttons
             /\ devices'[d].values = devices[d].values]_vars

\* C4: at any time at most one read is in flight for an open device, that
\* is, into the report buffer it polls.
C4_OneReadInFlight ==
    \A d \in Devs : LiveReads(d) <= 1

\* C5: what one device does never changes whether a poll of another device
\* in ReadPending observes its own read as complete.
C5_NoSharedPollState ==
    [][\A a \in Devs :
          (ReadPending(devices[a]) /\ last'.dev # a
              /\ last'.op \in {"report", "complete", "open", "close"}) =>
             (ObservesComplete(a)' <=> ObservesComplete(a))]_vars

\* C6: when rhid_close has returned, no read is in flight that can still
\* write into the report buffer it freed.
C6_CloseCancelsRead ==
    (last.op = "close" /\ last.ret = 0) => io[last.dev].freed = 0

\* C7: after a decode cycle whose active-usage query succeeded, every slot
\* of an emitted button descriptor holds 1 exactly if some active usage is
\* the usage of an emitted descriptor of that slot, and 0 otherwise.
C7_ButtonsAreActiveUsages ==
    (Decoding /\ last.status = HIDP_STATUS_SUCCESS) =>
        \A s \in ButtonSlots(devices[last.dev]) :
            ButtonAt(devices[last.dev], s) = 1
               <=> ActiveOnSlot(devices[last.dev], last.active, s)

\* C8: when the active-usage query of a decode cycle fails, rhid_report
\* returns the error, no button slot changes and the device stays open.
C8_FailedQueryKeepsButtons ==
    [][\A d \in Devs :
          (Polled(d) /\ last'.status = HIDP_STATUS_FAILED) =>
             /\ last'.ret = -1
             /\ devices'[d].buttons = devices[d].buttons
             /\ Usable(devices'[d])]_vars

\* a failed cycle has left a button that an earlier cycle set
C8_Witness ==
    /\ Decoding /\ last.status = HIDP_STATUS_FAILED
    /\ \E s \in DOMAIN devices[last.dev].buttons.mem :
          devices[last.dev].buttons.mem[s] = 1

\* C9: in every cycle with a fresh report the value phase queries every
\* value descriptor of the device, whether the button phase succeeded or
\* failed.
C9_ValuePhaseAlwaysRuns ==
    Decoding => DOMAIN last.answers = 0 .. (devices[last.dev].value_count - 1)

\* C10: in the value phase a failed query leaves the slot of its value
\* descriptor as it was, every query that succeeds sets its slot to the
\* decoded value, and rhid_report returns success.
C10_ValueFailureIsLocal ==
    [][\A d \in Devs :
          (Polled(d) /\ last'.avail = 1 /\ last'.status = HIDP_STATUS_SUCCESS) =>
             /\ last'.ret = 0
             /\ \A i \in 0 .. (devices[d].value_count - 1) :
                   LET slot == devices[d].value_descriptors[i].index
                   IN devices'[d].values.mem[slot] =
                         IF last'.answers[i].ok THEN last'.answers[i].value
                         ELSE devices[d].values.mem[slot]]_vars

\* a cycle in which one value query failed on a slot holding 127 from an
\* earlier cycle while another succeeded
C10_Witness ==
    /\ Decoding /\ last.status = HIDP_STATUS_SUCCESS /\ last.ret = 0
    /\ \E i, j \in DOMAIN last.answers :
          /\ ~last.answers[i].ok
          /\ devices[last.dev].values.mem[i] = 127
          /\ last.answers[j].ok

\* C11: decoding is idempotent: when the report a cycle has just decoded is
\* decoded once more with the same answers of the driver, the buttons array
\* and the values array come out as the first decode left them.
C11_DecodeIsIdempotent ==
    (Decoding /\ last.status = HIDP_STATUS_SUCCESS) =>
        LET dev == devices[last.dev]
            again == [dev EXCEPT !.buttons.mem = DecodeButtons(dev, last.active)]
        IN /\ again.buttons.mem = dev.buttons.mem
           /\ DecodeValues(again, last.answers) = dev.values.mem

\* a cycle that set a button and decoded a value while one value query failed
C11_Witness ==
    /\ Decoding /\ last.status = HIDP_STATUS_SUCCESS
    /\ \E s \in DOMAIN devices[last.dev].buttons.mem :
          devices[last.dev].buttons.mem[s] = 1
    /\ \E i, j \in DOMAIN last.answers :
          /\ last.answers[i].ok /\ last.answers[i].value = 5
          /\ ~last.answers[j].ok /\ devices[last.dev].values.mem[j] = 127

\* C12: for every button capability table that is built, the emitted button
\* descriptors are, in order, those of its entries: max-min+1 descriptors
\* with the usages min..max in ascending order for a range, one descriptor
\* for an entry that is not a range, with strictly increasing slot indices.
C12_RangeExpansion ==
    \A d \in Devs :
        (ButtonsBuilt(d)
            /\ ExpandedCount(Hw(d).button_caps, 1) <= RHID_MAX_BUTTON_CAPS) =>
           LET out == EmittedFrom(devices[d], 0)
               want == ExpectedUsages(Hw(d).button_caps, 1)
           IN /\ Len(out) = Len(want)
              /\ \A j \in 1 .. Len(out) :
                    <<out[j].page, out[j].usage>> = want[j]
              /\ \A i, j \in 1 .. Len(out) :
                    i < j => out[i].index < out[j].index

\* C13: after the build the n emitted button descriptors of a device, n the
\* sum of the usages its capability entries declare, are at the positions
\* 0..n-1 and each has its position as slot index, with no empty position
\* between two of them (stated for the tables whose build ends).
C13_DenseSlots ==
    \A d \in Devs :
        (ButtonsBuilt(d) /\ BuildEnds(Hw(d).button_caps)
            /\ ExpandedCount(Hw(d).button_caps, 1) <= RHID_MAX_BUTTON_CAPS) =>
           /\ Emitted(devices[d]) = 0 .. (ExpandedCount(Hw(d).button_caps, 1) - 1)
           /\ \A p \in Emitted(devices[d]) :
                 devices[d].button_descriptors[p].index = p

\* C14: a device whose capability table expands to more button descriptors
\* than RHID_MAX_BUTTON_CAPS, or declares more value capabilities than
\* RHID_MAX_VALUE_CAPS, is rejected, and no build stores a descriptor at or
\* beyond the fixed maximum (stated for the tables whose build ends).
C14_MaximaRejected ==
    \A d \in Devs :
        /\ BuildEnds(Hw(d).button_caps) => ~devices[d].overrun
        /\ (/\ enumerated /\ Reached(Hw(d))
            /\ BuildEnds(Hw(d).button_caps)
            /\ Hw(d).button_caps_status = HIDP_STATUS_SUCCESS
            /\ Hw(d).value_caps_status = HIDP_STATUS_SUCCESS
            /\ \/ ExpandedCount(Hw(d).button_caps, 1) > RHID_MAX_BUTTON_CAPS
               \/ Hw(d).NumberInputValueCaps > RHID_MAX_VALUE_CAPS)
           => Abandoned(d)

\* C15: when the enumeration cannot open an interface, cannot get its
\* preparsed data, or finds more button or value capabilities than the
\* fixed maximum, it gives up that device only, with its handle released:
\* every sound interface later in the list is enumerated normally and
\* rhid_get_devices returns success.
C15_FailureIsPerDevice ==
    enumerated =>
        /\ last.op = "get_devices" => last.ret = 0
        /\ \A d \in Devs :
              DeviceFailure(Hw(d)) =>
                 /\ Abandoned(d)
                 /\ \A j \in Devs :
                       (j > d /\ Sound(Hw(j))) => Populated(j) /\ ~devices[j].handle

\* an interface with RHID_MAX_BUTTON_CAPS + 1 button capabilities was given
\* up and the interface after it came out with its descriptors
C15_Witness ==
    /\ enumerated
    /\ Hw(0).present /\ Hw(0).NumberInputButtonCaps = RHID_MAX_BUTTON_CAPS + 1
    /\ Abandoned(0)
    /\ Sound(Hw(1)) /\ Populated(1) /\ Emitted(devices[1]) # {}

\* C16: when HidP_GetCaps, HidP_GetButtonCaps or HidP_GetValueCaps fails for
\* an interface, its device does not come out of the enumeration populated
\* (usage page and usage, button_count, value_count and report_size set).
C16_CapabilityErrorFailsBuild ==
    enumerated =>
        \A d \in Devs : CapabilityCallFails(Hw(d)) => ~Populated(d)

\* C17: rhid_select_devices never stores more entries than the output array
\* has, and it fails whenever more devices match than the array has entries.
C17_SelectionBounded ==
    last.op = "select_devices" =>
        /\ ~last.beyond
        /\ Cardinality(Matching(last.func)) > last.capacity => last.ret = -1

\* C18: rhid_select_count returns the number of devices the select function
\* accepts and changes nothing; rhid_select_devices with an output array of
\* at least that many entries succeeds and stores pointers to exactly those
\* devices, in the order of the device array.
C18_CountAndSelectAgree ==
    [][/\ last'.op = "select_count" =>
             /\ last'.ret = Cardinality(Matching(last'.func))
             /\ UNCHANGED <<platform, devices, gcache, io, enumerated>>
       /\ (last'.op = "select_devices"
              /\ last'.capacity >= Cardinality(Matching(last'.func))) =>
             LET n == Cardinality(Matching(last'.func))
             IN /\ last'.ret = 0
                /\ ~last'.beyond
                /\ \A k \in 1 .. n : last'.selected[k] \in Matching(last'.func)
                /\ \A k, l \in 1 .. n :
                      k < l => last'.selected[k] < last'.selected[l]
                /\ UNCHANGED <<platform, devices, gcache, io, enumerated>>]_vars

\* a selection that passed over the first device and stored the second
C18_Witness ==
    /\ last.op = "select_devices" /\ last.ret = 0
    /\ Matching(last.func) = {1}
    /\ last.capacity >= 1 /\ last.selected[1] = 1

\* C19: once the capabilities of a device are built, no call of rhid_open,
\* rhid_report, the state getters or rhid_close changes button_count,
\* value_count, report_size or the descriptor arrays; rhid_close releases
\* the handle and the buffers and keeps the descriptors, and a device that
\* is opened (again) starts in the Idle poll state.
C19_DescriptorsAreFixed ==
    [][enumerated =>
          \A d \in Devs :
             /\ BuiltPart(devices'[d]) = BuiltPart(devices[d])
             /\ (last'.op = "close" /\ last'.dev = d /\ last'.ret = 0) =>
                   /\ ~devices'[d].handle /\ devices'[d].is_open = 0
                   /\ devices'[d].report = NullPtr
                   /\ devices'[d].buttons = NullPtr
                   /\ devices'[d].values = NullPtr
             /\ (last'.op = "open" /\ last'.dev = d /\ last'.ret = 0) =>
                   Idle(devices'[d])]_vars

\* a device with descriptors that was closed while a read was in flight has
\* been opened again
C19_Witness ==
    /\ last.op = "open" /\ last.ret = 0
    /\ io[last.dev].freed > 0
    /\ Idle(devices[last.dev])
    /\ Emitted(devices[last.dev]) # {}
    /\ devices[last.dev].button_count > 0

\* C20: when a device has no read in flight and the read a poll tries to
\* start is refused (ReadFile fails with an error other than
\* ERROR_IO_PENDING), rhid_report returns "no report" and not an error, the
\* device stays open with no read in flight and with its buttons and values
\* as they were, and it is left Idle, from where every poll tries to start
\* a read.
C20_RefusedReadIsNoReport ==
    [][\A d \in Devs :
          /\ (Polled(d) /\ last'.outcome = "error" /\ LiveReads(d) = 0) =>
                /\ last'.ret = 0 /\ last'.avail = 0
                /\ Usable(devices'[d])
                /\ Idle(devices'[d])
                /\ LiveReads(d)' = 0
                /\ devices'[d].buttons = devices[d].buttons
                /\ devices'[d].values = devices[d].values
          /\ (Polled(d) /\ Idle(devices[d])) => last'.issued = 1]_vars

\* a refused read has left a device Idle that holds a button and a value
\* from an earlier cycle
C20_Witness ==
    /\ last.op = "report" /\ last.outcome = "error" /\ last.ret = 0
    /\ Idle(devices[last.dev])
    /\ LiveReads(last.dev) = 0
    /\ \E s \in DOMAIN devices[last.dev].buttons.mem :
          devices[last.dev].buttons.mem[s] = 1
    /\ \E i \in DOMAIN devices[last.dev].values.mem :
          devices[last.dev].values.mem[i] = 127

\* C21: whenever rhid_report has decoded the report buffer of a device, the
\* read last started into that buffer has completed with a whole report
\* and no read into the buffer is in flight.
C21_DecodesCompletedReport ==
    Decoding =>
        /\ io[last.dev].latest >= devices[last.dev].report_size
        /\ LiveReads(last.dev) = 0

\* C22: every button descriptor the build has emitted, those of an expanded
\* usage range included, has the report id, the usage page and the usage of
\* the capability entry it comes from (stated for the builds that end
\* within the array).
C22_DescriptorCarriesEntry ==
    \A d \in Devs :
        (ButtonsBuilt(d) /\ BuildEnds(Hw(d).button_caps) /\ ~devices[d].overrun) =>
           LET out == EmittedFrom(devices[d], 0)
               want == ExpectedDescriptors(Hw(d).button_caps, 1)
           IN \A j \in 1 .. Len(out) :
                 j <= Len(want) =>
                    <<out[j].report_id, out[j].page, out[j].usage>> = want[j]

\* C23: the expansion of a usage range ends at UsageMax also when that is
\* 0xFFFF: the 16-bit counter does not wrap and start over, so that every
\* descriptor the build emits is of a usage the table declares.
C23_ExpansionEnds ==
    \A d \in Devs :
        ButtonsBuilt(d) =>
           \A p \in Emitted(devices[d]) :
              <<devices[d].button_descriptors[p].page,
                devices[d].button_descriptors[p].usage>>
                 \in DeclaredUsages(Hw(d).button_caps, 1)

\* C24: after every call, is_open = 1 exactly if the device owns a handle
\* and allocated report, button and value buffers; rhid_close on a device
\* that is not open returns -1 and changes nothing.
C24_OpenMeansOwned ==
    [][\A d \in Devs :
          /\ devices'[d].is_open = 1 <=> OwnsResources(devices'[d])
          /\ (last'.op = "close" /\ last'.dev = d /\ devices[d].is_open = 0) =>
                /\ last'.ret = -1
                /\ devices' = devices /\ io' = io /\ gcache' = gcache]_vars

====
